---- MODULE Spec2Model ----
(***************************************************************************)
(* Link enrichment (step 2.5 of the fact-checking pipeline):               *)
(* app/ai/factchecking/link_enricher.py.                                   *)
(*                                                                         *)
(* Python values are represented as follows.                               *)
(*   str            a TLA+ string                                          *)
(*   Optional[str]  a tuple of length 0 (None) or 1 (<<s>>)                *)
(*   dict / model   a record                                               *)
(*   list           a sequence                                             *)
(***************************************************************************)
EXTENDS Integers, Sequences, FiniteSets, TLC

\* ------------------------------------------------------------------------
\* Bounds of the model
\* ------------------------------------------------------------------------
MaxClaims == 2

MaxTotalLinks == 2

\* ------------------------------------------------------------------------
\* Python values
\* ------------------------------------------------------------------------
None == <<>>

Some(s) == <<s>>

IsNone(v) == v = <<>>

Val(v) == v[1]

\* Truthiness of an Optional[str]: None and "" are falsy.
Truthy(v) == v # <<>> /\ v[1] # ""

Min(a, b) == IF a < b THEN a ELSE b

Max(a, b) == IF a > b THEN a ELSE b

CharAt(s, i) == SubSeq(s, i, i)

\* s[:n] for a Python str, negative n counting from the end.
PySlicePrefix(s, n) ==
    IF n >= 0 THEN SubSeq(s, 1, Min(n, Len(s)))
              ELSE SubSeq(s, 1, Max(Len(s) + n, 0))

WhitespaceChars == {" ", "\t", "\n", "\r"}

IsSpace(c) == c \in WhitespaceChars

\* str.strip()
Strip(s) ==
    LET idx == {i \in 1..Len(s) : ~IsSpace(CharAt(s, i))}
    IN  IF idx = {} THEN ""
        ELSE LET first == CHOOSE i \in idx : \A j \in idx : i <= j
                 last  == CHOOSE i \in idx : \A j \in idx : j <= i
             IN  SubSeq(s, first, last)

UpperChars == "ABCDEFGHIJKLMNOPQRSTUVWXYZÁÉÍÓÚÃÕÇ"

LowerChars == "abcdefghijklmnopqrstuvwxyzáéíóúãõç"

LowerChar(c) ==
    LET hit == {i \in 1..Len(UpperChars) : CharAt(UpperChars, i) = c}
    IN  IF hit = {} THEN c ELSE CharAt(LowerChars, CHOOSE i \in hit : TRUE)

RECURSIVE Lower(_)
\* str.lower()
Lower(s) ==
    IF Len(s) = 0 THEN ""
    ELSE IF Len(s) = 1 THEN LowerChar(s)
    ELSE LET h == Len(s) \div 2
         IN  Lower(SubSeq(s, 1, h)) \o Lower(SubSeq(s, h + 1, Len(s)))

\* p in s
Contains(p, s) ==
    \E i \in 1..(Len(s) - Len(p) + 1) : SubSeq(s, i, i + Len(p) - 1) = p

\* len(s.split()): the number of maximal runs of non-whitespace characters.
WordCount(s) ==
    Cardinality({i \in 1..Len(s) :
        /\ ~IsSpace(CharAt(s, i))
        /\ (i = 1 \/ IsSpace(CharAt(s, i - 1)))})

\* s.split(sep)[0] when sep occurs in s: the text before the first sep.
BeforeFirst(sep, s) ==
    LET at == {i \in 1..(Len(s) - Len(sep) + 1) : SubSeq(s, i, i + Len(sep) - 1) = sep}
        first == CHOOSE i \in at : \A j \in at : i <= j
    IN  SubSeq(s, 1, first - 1)

\* ------------------------------------------------------------------------
\* _is_invalid_content
\* ------------------------------------------------------------------------
invalid_patterns == {
    "javascript is not available",
    "javascript is disabled",
    "please enable javascript",
    "switch to a supported browser",
    "we've detected that javascript is disabled",
    "enable javascript or switch to a supported browser",
    "something went wrong",
    "try again",
    "privacy related extensions",
    "disable them and try again",
    "help center",
    "terms of service",
    "privacy policy",
    "cookie policy",
    "ads info",
    "imprint",
    "© 2025 x corp",
    "© 2024 x corp",
    "© 2023 x corp",
    "access denied",
    "forbidden",
    "not found",
    "page not found",
    "server error",
    "temporarily unavailable",
    "maintenance mode",
    "under construction",
    "coming soon",
    "this page is not available",
    "content not available",
    "unable to load",
    "loading failed",
    "connection error",
    "timeout",
    "rate limited",
    "too many requests" }

js_related_words ==
    {"javascript", "browser", "enable", "switch", "supported", "detected",
     "error", "failed", "unavailable"}

error_words ==
    {"error", "failed", "unavailable", "denied", "forbidden", "not found", "disabled"}

footer_words ==
    {"help", "terms", "privacy", "policy", "cookie", "ads", "imprint", "corp", "©"}

\* (invalid_count / total_words) > 0.15, as invalid_count * 100 > 15 * total_words
DensityPercent == 15

ShortTextLen == 300

JsTextLen == 400

JsWordMin == 2

ErrorTextLen == 100

FooterTextLen == 200

FooterWordMin == 3

CountIn(words, s) == Cardinality({w \in words : Contains(w, s)})

\* Mutant: the rule of line 101 is missing.
is_invalid_content_NoShortRule(texto) ==
    IF texto = "" THEN TRUE
    ELSE
    LET texto_lower   == Strip(Lower(texto))
        invalid_count == CountIn(invalid_patterns, texto_lower)
        total_words   == WordCount(texto_lower)
        js_word_count == CountIn(js_related_words, texto_lower)
        footer_count  == CountIn(footer_words, texto_lower)
    IN  \/ total_words > 0 /\ invalid_count * 100 > DensityPercent * total_words
        \/ js_word_count >= JsWordMin /\ Len(texto_lower) < JsTextLen
        \/ Len(texto_lower) < ErrorTextLen /\ CountIn(error_words, texto_lower) > 0
        \/ footer_count >= FooterWordMin /\ Len(texto_lower) < FooterTextLen

\* Mutant: the rule of line 108 has no length test.
is_invalid_content_JsAnyLength(texto) ==
    IF texto = "" THEN TRUE
    ELSE
    LET texto_lower   == Strip(Lower(texto))
        invalid_count == CountIn(invalid_patterns, texto_lower)
        total_words   == WordCount(texto_lower)
        js_word_count == CountIn(js_related_words, texto_lower)
        footer_count  == CountIn(footer_words, texto_lower)
    IN  \/ total_words > 0 /\ invalid_count * 100 > DensityPercent * total_words
        \/ Len(texto_lower) < ShortTextLen /\ invalid_count > 0
        \/ js_word_count >= JsWordMin
        \/ Len(texto_lower) < ErrorTextLen /\ CountIn(error_words, texto_lower) > 0
        \/ footer_count >= FooterWordMin /\ Len(texto_lower) < FooterTextLen

\* Mutant: the rule of line 120 is missing.
is_invalid_content_NoFooterRule(texto) ==
    IF texto = "" THEN TRUE
    ELSE
    LET texto_lower   == Strip(Lower(texto))
        invalid_count == CountIn(invalid_patterns, texto_lower)
        total_words   == WordCount(texto_lower)
        js_word_count == CountIn(js_related_words, texto_lower)
    IN  \/ total_words > 0 /\ invalid_count * 100 > DensityPercent * total_words
        \/ Len(texto_lower) < ShortTextLen /\ invalid_count > 0
        \/ js_word_count >= JsWordMin /\ Len(texto_lower) < JsTextLen
        \/ Len(texto_lower) < ErrorTextLen /\ CountIn(error_words, texto_lower) > 0

is_invalid_content(texto) ==
    IF texto = "" THEN TRUE
    ELSE
    LET texto_lower   == Strip(Lower(texto))
        invalid_count == CountIn(invalid_patterns, texto_lower)
        total_words   == WordCount(texto_lower)
        js_word_count == CountIn(js_related_words, texto_lower)
        footer_count  == CountIn(footer_words, texto_lower)
    IN  IF total_words > 0 /\ invalid_count * 100 > DensityPercent * total_words
            THEN TRUE
        ELSE IF Len(texto_lower) < ShortTextLen /\ invalid_count > 0
            THEN TRUE
        ELSE IF js_word_count >= JsWordMin /\ Len(texto_lower) < JsTextLen
            THEN TRUE
        ELSE IF Len(texto_lower) < ErrorTextLen /\ CountIn(error_words, texto_lower) > 0
            THEN TRUE
        ELSE IF footer_count >= FooterWordMin /\ Len(texto_lower) < FooterTextLen
            THEN TRUE
        ELSE FALSE

\* ------------------------------------------------------------------------
\* Inputs: the batch of claims, the enricher's configuration, the outcomes of
\* the calls the enricher makes to its environment
\* ------------------------------------------------------------------------
UrlNews == "https://g1.com/n"

UrlSocial == "https://x.com/p"

Urls == {UrlNews, UrlSocial}

\* More URLs, for single extractions: the other social domain, a host and a
\* path that merely contain "x.com", and a page that yields the longer texts.
UrlTwitter == "https://twitter.com/p"

UrlFox == "https://fox.com/n"

UrlPath == "https://g1.com/x.com/n"

UrlLong == "https://g1.com/longa"

ProbeUrls == {UrlTwitter, UrlFox, UrlPath, UrlLong}

AllUrls == Urls \cup ProbeUrls

DefaultContentLimit == 5000

SmallContentLimit == 53

\* content_limit is a character budget: the values an enricher is constructed
\* with.
ContentLimits == {0, SmallContentLimit, DefaultContentLimit}

\* trimmed length 50, raw length 55
TextShort == "  \n" \o "O governo anunciou novas medidas para a economia!!" \o " \t"

\* a JavaScript banner, length 77
TextJs == "Please enable JavaScript to continue. JavaScript is disabled in this browser."

\* trimmed length 51, raw length 55
TextGood == " \n" \o "O governo anunciou hoje novas medidas para economia" \o "\n "

\* two paragraphs, length 64
TextPara == "Para A.\n\nPara B. O ministro confirmou a decisao em nota oficial."

RECURSIVE Rep(_, _)
\* s * n
Rep(s, n) ==
    IF n <= 0 THEN ""
    ELSE IF n = 1 THEN s
    ELSE Rep(s, n \div 2) \o Rep(s, n - (n \div 2))

\* The length of a long article.
LongTextLen == 600

\* core followed by words up to exactly n characters.
PadWords(core, n) ==
    SubSeq(core \o " " \o Rep("noticia ", (n \div 8) + 1), 1, n - 1) \o "s"

\* core followed by one long word up to exactly n characters.
PadLong(core, n) == core \o " " \o Rep("a", n - Len(core) - 1)

\* The notice of a page that needs JavaScript, length 36.
TextPlease == "Please enable JavaScript to continue"

\* A news article of LongTextLen characters.
TextLong == PadWords("O governo anunciou novas medidas", LongTextLen)

\* An article about browsers: JsTextLen characters; and one character less
\* with whitespace around it.
TextBrowser == PadWords("The Browser will Switch tabs", JsTextLen)

TextBrowserPadded == " " \o PadWords("The Browser will Switch tabs", JsTextLen - 1) \o "\n\n"

Dict(titulo, texto_completo) ==
    [titulo |-> titulo, texto_completo |-> texto_completo]

\* What a backend function returns: None, or a dict.  The keys autores and
\* data_publicacao are carried along by the code and never read by the
\* enricher; they are left out.
Resultados == {
    None,
    Some(Dict(Some("Breve"), Some(TextShort))),
    Some(Dict(Some("X"), Some(TextJs))),
    Some(Dict(None, Some(TextGood))),
    Some(Dict(Some("X"), Some(TextPara))),
    Some(Dict(None, Some(TextPlease))),
    Some(Dict(Some("Economia"), Some(TextLong))),
    Some(Dict(Some("Browsers"), Some(TextBrowser))),
    Some(Dict(Some("Browsers"), Some(TextBrowserPadded))) }

\* The outcome of the call funcao_metodo(url): it raises, or returns.
BackendOutcomes ==
    {[raised |-> TRUE, resultado |-> None]}
        \cup {[raised |-> FALSE, resultado |-> r] : r \in Resultados}

\* What the backends can make of the page behind each URL: nothing, a text
\* too short, a JavaScript banner, or the page's text: an article with a
\* title and paragraphs behind the news URL, an untitled post behind the
\* social one.
PageOutcomes ==
    [u \in AllUrls |->
        {o \in BackendOutcomes :
            \/ o.raised
            \/ o.resultado = None
            \/ Val(o.resultado).texto_completo \in {Some(TextShort), Some(TextJs)}
            \/ Val(o.resultado).texto_completo \in
                   IF u = UrlLong
                       THEN {Some(TextPlease), Some(TextLong), Some(TextBrowser),
                             Some(TextBrowserPadded)}
                   ELSE IF u \in {UrlSocial, UrlTwitter} THEN {Some(TextGood)}
                   ELSE {Some(TextPara)}}]

\* An exception message of 112 characters, longer than the notes keep.
LongMessage == Rep("cannot schedule ", 7)

\* The outcome of handing the extraction of a URL to the executor: it is
\* dispatched (None), or the dispatch raises with a message, a short one for
\* some URLs and a long one for the others.
DispatchOutcomes ==
    [u \in AllUrls |->
        {None,
         IF u \in {UrlSocial, UrlTwitter} THEN Some(LongMessage)
         ELSE Some("cannot schedule new futures after shutdown")}]

SumLens(b) ==
    LET RECURSIVE S(_)
        S(i) == IF i = 0 THEN 0 ELSE Len(b[i]) + S(i - 1)
    IN  S(Len(b))

LinkLists == UNION {[1..n -> Urls] : n \in 0..MaxTotalLinks}

ExtractedClaim(i, links) ==
    [text        |-> "claim " \o ToString(i),
     links       |-> links,
     llm_comment |-> "comment " \o ToString(i),
     entities    |-> <<"entity " \o ToString(i)>>]

Batches ==
    {[i \in 1..Len(b) |-> ExtractedClaim(i, b[i])] :
        b \in {c \in UNION {[1..n -> LinkLists] : n \in 0..MaxClaims} :
                  SumLens(c) <= MaxTotalLinks}}

\* ------------------------------------------------------------------------
\* extrair_noticia_principal_de_link
\* ------------------------------------------------------------------------
InsertAt(seq, i, e) == SubSeq(seq, 1, i) \o <<e>> \o SubSeq(seq, i + 1, Len(seq))

\* Mutant: goose3 is appended to the list, not inserted at index 1.
metodos_rapidos_Append(url) ==
    LET base == <<"trafilatura", "newspaper3k", "readability",
                  "requests_session", "beautifulsoup">>
    IN  IF Contains("x.com", url) \/ Contains("twitter.com", url)
        THEN Append(base, "goose3")
        ELSE base

metodos_rapidos(url) ==
    LET base == <<"trafilatura", "newspaper3k", "readability",
                  "requests_session", "beautifulsoup">>
    IN  IF Contains("x.com", url) \/ Contains("twitter.com", url)
        THEN InsertAt(base, 1, "goose3")
        ELSE base

MinTextLen == 50

\* Mutant: a text of exactly 50 characters passes the length test.
conteudo_valido_AtLeast(res) ==
    /\ res # None
    /\ Truthy(Val(res).texto_completo)
    /\ LET texto == Strip(Val(Val(res).texto_completo))
       IN  Len(texto) >= MinTextLen /\ ~is_invalid_content(texto)

\* The test of lines 380-384 on what a backend returned.
conteudo_valido(res) ==
    /\ res # None
    /\ Truthy(Val(res).texto_completo)
    /\ LET texto == Strip(Val(Val(res).texto_completo))
       IN  Len(texto) > MinTextLen /\ ~is_invalid_content(texto)

\* The verdicts on the values the backends return, computed once.
Verdicts == {<<r, conteudo_valido(r)>> : r \in Resultados}

\* Mutant: the result is tagged with the name of the first backend.
ResultadoComMetodo_First(res, nome_metodo) ==
    Some([titulo         |-> Val(res).titulo,
          texto_completo |-> Val(res).texto_completo,
          metodo_usado   |-> "trafilatura"])

\* resultado['metodo_usado'] = nome_metodo; return resultado
ResultadoComMetodo(res, nome_metodo) ==
    Some([titulo         |-> Val(res).titulo,
          texto_completo |-> Val(res).texto_completo,
          metodo_usado   |-> nome_metodo])

\* ------------------------------------------------------------------------
\* LinkEnricher
\* ------------------------------------------------------------------------
\* The literals of the messages.  TLC keeps only 7-bit characters intact in
\* the states it writes to disk, so the accented letters of these literals
\* are written without their accents; every literal keeps its length.
\* "Conteúdo não disponível", line 581.
NoContentSummary == "Conteudo nao disponivel"

\* "Conteúdo extraído mas sem informações resumíveis", line 596.
NoSummarySummary == "Conteudo extraido mas sem informacoes resumiveis"

\* "Título: ", line 587.
TitleLabel == "Titulo: "

\* "Conteúdo extraído com ", line 535.
ExtractedWithNote == "Conteudo extraido com "

\* "Falha na extração de conteúdo", line 538.
FailureNote == "Falha na extracao de conteudo"

\* "Erro durante extração: ", line 543.
ErrorNotePrefix == "Erro durante extracao: "

\* " extrações bem-sucedidas. ", line 464.
SuccessfulNote == " extracoes bem-sucedidas. "

SummaryLen == 200

JoinParts(parts) ==
    IF Len(parts) = 0 THEN NoSummarySummary
    ELSE IF Len(parts) = 1 THEN parts[1]
    ELSE parts[1] \o " | " \o parts[2]

\* Mutant: the first paragraph is not trimmed.
create_simple_summary_NoTrim(title, content) ==
    IF content = "" THEN NoContentSummary
    ELSE
    LET para  == IF Contains("\n\n", content) THEN BeforeFirst("\n\n", content)
                 ELSE content
        tpart == IF Truthy(title) THEN <<TitleLabel \o Val(title)>> ELSE <<>>
        rpart == IF Strip(para) # "" THEN <<"Resumo: " \o para>> ELSE <<>>
    IN  JoinParts(tpart \o rpart)

\* Mutant: the cut of line 591 adds no ellipsis.
create_simple_summary_NoEllipsis(title, content) ==
    IF content = "" THEN NoContentSummary
    ELSE
    LET para  == IF Contains("\n\n", content) THEN BeforeFirst("\n\n", content)
                 ELSE content
        first_paragraph ==
                 IF Len(para) > SummaryLen THEN SubSeq(para, 1, SummaryLen)
                 ELSE para
        tpart == IF Truthy(title) THEN <<TitleLabel \o Val(title)>> ELSE <<>>
        rpart == IF Strip(first_paragraph) # ""
                 THEN <<"Resumo: " \o Strip(first_paragraph)>> ELSE <<>>
    IN  JoinParts(tpart \o rpart)

create_simple_summary(title, content) ==
    IF content = "" THEN NoContentSummary
    ELSE
    LET para  == IF Contains("\n\n", content) THEN BeforeFirst("\n\n", content)
                 ELSE content
        first_paragraph ==
                 IF Len(para) > SummaryLen THEN SubSeq(para, 1, SummaryLen) \o "..."
                 ELSE para
        tpart == IF Truthy(title) THEN <<TitleLabel \o Val(title)>> ELSE <<>>
        rpart == IF Strip(first_paragraph) # ""
                 THEN <<"Resumo: " \o Strip(first_paragraph)>> ELSE <<>>
    IN  JoinParts(tpart \o rpart)

\* EnrichedLink(url=url, extraction_status="pending")
PendingLink(url) ==
    [url               |-> url,
     title             |-> Some(""),
     content           |-> "",
     summary           |-> "",
     extraction_status |-> "pending",
     extraction_notes  |-> None]

\* Mutant: the conversion loses the name of the backend.
extract_with_newspaper_Unknown(extracted) ==
    IF extracted # None
    THEN Some([titulo         |-> Val(extracted).titulo,
               texto_completo |-> Val(extracted).texto_completo,
               metodo_usado   |-> "unknown"])
    ELSE None

\* _extract_with_newspaper: the pipeline's result in the expected format.
extract_with_newspaper(extracted) ==
    IF extracted # None
    THEN Some([titulo         |-> Val(extracted).titulo,
               texto_completo |-> Val(extracted).texto_completo,
               metodo_usado   |-> Val(extracted).metodo_usado])
    ELSE None

\* Mutant: the slice keeps one character too many.
LimitContent_OffByOne(full_content, limit) ==
    IF Truthy(full_content) THEN PySlicePrefix(Val(full_content), limit + 1) ELSE ""

\* full_content[:self.content_limit] if full_content else ""
LimitContent(full_content, limit) ==
    IF Truthy(full_content) THEN PySlicePrefix(Val(full_content), limit) ELSE ""

\* len(full_content) in the notes; the accepted text is never None.
LenOpt(v) == IF IsNone(v) THEN 0 ELSE Len(Val(v))

\* _extract_link_content, lines 521-535: the link of an extraction that
\* returned a result r.
SuccessLink(link, r, limit) ==
    LET content == LimitContent(r.texto_completo, limit)
    IN  [link EXCEPT
           !.title             = r.titulo,
           !.content           = content,
           !.summary           = create_simple_summary(r.titulo, content),
           !.extraction_status = "success",
           !.extraction_notes  =
               Some(ExtractedWithNote \o r.metodo_usado
                    \o ". Tamanho: " \o ToString(LenOpt(r.texto_completo))
                    \o " chars, limitado a " \o ToString(Len(content))
                    \o " chars")]

\* Mutant: the failure branch sets the notes and forgets the status.
FailedLink_KeepsPending(link) ==
    [link EXCEPT !.extraction_notes = Some(FailureNote)]

\* _extract_link_content, lines 536-538: the link of an extraction that
\* returned None.
FailedLink(link) ==
    [link EXCEPT
       !.extraction_status = "failed",
       !.extraction_notes  = Some(FailureNote)]

\* _extract_link_content, lines 520-538: the link after the extraction returned.
FilledLink(link, extracted, limit) ==
    IF extracted # None
    THEN SuccessLink(link, Val(extracted), limit)
    ELSE FailedLink(link)

ErrorNoteLen == 100

\* Mutant: the exception is not caught and leaves _extract_link_content.
ExceptLink_Reraise(link, message) == [raised |-> TRUE, link |-> link]

\* Mutant: the notes keep the whole message of the exception.
ExceptLink_WholeMessage(link, message) ==
    [raised |-> FALSE,
     link   |-> [link EXCEPT
                   !.extraction_status = "failed",
                   !.extraction_notes  = Some(ErrorNotePrefix \o message)]]

\* _extract_link_content, lines 540-545: an exception raised inside the try
\* block is caught, and the link is returned as failed.
ExceptLink(link, message) ==
    [raised |-> FALSE,
     link   |-> [link EXCEPT
                   !.extraction_status = "failed",
                   !.extraction_notes  =
                       Some(ErrorNotePrefix
                            \o PySlicePrefix(message, ErrorNoteLen))]]

\* Mutant: a link whose extraction failed is not kept.
AppendLink_DropFailed(links, link) ==
    IF link.extraction_status = "failed" THEN links ELSE Append(links, link)

\* _enrich_single_claim, line 485: enriched_links.append(enriched_link)
AppendLink(links, link) == Append(links, link)

\* Mutant: a URL occurring twice in a claim is counted once.
CountLinks_Distinct(c) == Cardinality({c.links[i] : i \in 1..Len(c.links)})

\* enrich_links, line 440: len(claim.links)
CountLinks(c) == Len(c.links)

\* Mutant: the failed links of a finished claim are put back to "pending".
EnrichedClaim_Requeue(c, links) ==
    [text           |-> c.text,
     original_links |-> c.links,
     enriched_links |-> [k \in 1..Len(links) |->
                            IF links[k].extraction_status = "failed"
                            THEN [links[k] EXCEPT !.extraction_status = "pending"]
                            ELSE links[k]],
     llm_comment    |-> c.llm_comment,
     entities       |-> c.entities]

\* Mutant: the entities are not handed over and take their default.
EnrichedClaim_NoEntities(c, links) ==
    [text           |-> c.text,
     original_links |-> c.links,
     enriched_links |-> links,
     llm_comment    |-> c.llm_comment,
     entities       |-> <<>>]

\* _enrich_single_claim, lines 487-493
EnrichedClaim(c, links) ==
    [text           |-> c.text,
     original_links |-> c.links,
     enriched_links |-> links,
     llm_comment    |-> c.llm_comment,
     entities       |-> c.entities]

\* Mutant: a claim without links gets one link, still pending.
EnrichedClaimNoLinks_Placeholder(c) ==
    [text           |-> c.text,
     original_links |-> <<>>,
     enriched_links |-> <<PendingLink("")>>,
     llm_comment    |-> c.llm_comment,
     entities       |-> c.entities]

\* enrich_links, lines 451-457
EnrichedClaimNoLinks(c) ==
    [text           |-> c.text,
     original_links |-> <<>>,
     enriched_links |-> <<>>,
     llm_comment    |-> c.llm_comment,
     entities       |-> c.entities]

\* Mutant: every link of the claim is counted as a success.
CountSuccess_All(links) == Len(links)

\* enrich_links, lines 444-446
CountSuccess(links) ==
    Cardinality({i \in 1..Len(links) : links[i].extraction_status = "success"})

\* enrich_links, lines 462-475.  processing_time_ms is wall-clock time and is
\* left out.
LinkEnrichmentResult(original, enriched, total, successful) ==
    [original_claims        |-> original,
     enriched_claims        |-> enriched,
     total_links_processed  |-> total,
     successful_extractions |-> successful,
     processing_notes       |->
         "Processados " \o ToString(total) \o " links. "
         \o ToString(successful) \o SuccessfulNote
         \o ToString(total - successful) \o " falhas."]

\* ------------------------------------------------------------------------
\* State
\* ------------------------------------------------------------------------
VARIABLES
    claims,                  \* claims_result.claims, the input batch
    content_limit,           \* self.content_limit
    pc,                      \* where the call of enrich_links stands
    ci,                      \* enrich_links: position of `claim` in the batch
    li,                      \* _enrich_single_claim: position of `url` in claim.links
    enriched_claims,         \* enrich_links: enriched_claims
    enriched_links,          \* _enrich_single_claim: enriched_links
    total_links,             \* enrich_links: total_links
    successful_extractions,  \* enrich_links: successful_extractions
    enriched_link,           \* _extract_link_content: enriched_link (None outside it)
    metodo,                  \* extrair_noticia_principal_de_link: position in metodos_rapidos
    resultado,               \* extrair_noticia_principal_de_link: the resultado it returns
    extraction_result,       \* _extract_link_content: extraction_result
    calls,                   \* every backend call made, as the debug log tells it
    result,                  \* what enrich_links returned (None before it returns)
    fn,                      \* the function called on its own ("" when enrich_links runs)
    args,                    \* the arguments of that call
    ret                      \* what that call returned (None before it returns)

vars == <<claims, content_limit, pc, ci, li, enriched_claims, enriched_links,
          total_links, successful_extractions, enriched_link, metodo, resultado,
          extraction_result, calls, result, fn, args, ret>>

\* A call of one function of the module on its own.
direct == <<fn, args, ret>>

\* LinkEnricher and its local variables before enrich_links runs.
Start ==
    /\ pc = "claims"
    /\ ci = 1
    /\ li = 0
    /\ enriched_claims = <<>>
    /\ enriched_links = <<>>
    /\ total_links = 0
    /\ successful_extractions = 0
    /\ enriched_link = None
    /\ metodo = 0
    /\ resultado = None
    /\ extraction_result = None
    /\ calls = <<>>
    /\ result = None
    /\ fn = ""
    /\ args = <<>>
    /\ ret = None

\* create_link_enricher(): the enricher of the pipeline, on any batch.
Init ==
    /\ claims \in Batches
    /\ content_limit = DefaultContentLimit
    /\ Start

\* LinkEnricher(content_limit): an enricher with any budget, on one claim.
InitLimit ==
    /\ claims \in {b \in Batches : Len(b) = 1}
    /\ content_limit \in ContentLimits
    /\ Start

\* Mutant: the loop of line 438 runs over the claims from the last to the first.
claim_Reversed == claims[Len(claims) + 1 - ci]

claim == claims[ci]

url == claim.links[li]

\* enrich_links, lines 438-441: a claim with links; _enrich_single_claim starts.
EnrichSingleClaim ==
    /\ pc = "claims"
    /\ ci <= Len(claims)
    /\ claim.links # <<>>
    /\ total_links' = total_links + CountLinks(claim)
    /\ enriched_links' = <<>>
    /\ li' = 1
    /\ pc' = "links"
    /\ UNCHANGED <<claims, content_limit, ci, enriched_claims, successful_extractions,
                   enriched_link, metodo, resultado, extraction_result, calls, result>>
    /\ UNCHANGED direct

\* enrich_links, lines 449-458: a claim without links.
EnrichNoLinks ==
    /\ pc = "claims"
    /\ ci <= Len(claims)
    /\ claim.links = <<>>
    /\ enriched_claims' = Append(enriched_claims, EnrichedClaimNoLinks(claim))
    /\ ci' = ci + 1
    /\ UNCHANGED <<claims, content_limit, pc, li, enriched_links, total_links,
                   successful_extractions, enriched_link, metodo, resultado,
                   extraction_result, calls, result>>
    /\ UNCHANGED direct

\* _extract_link_content, lines 505-518: the pending link is created and the
\* extraction is handed to the executor.  An exception of the dispatch is
\* caught at line 540; one that were not caught would leave
\* _enrich_single_claim and enrich_links, which have no handler.
ExtractLinkContent ==
    /\ pc = "links"
    /\ li <= Len(claim.links)
    /\ \E dispatch \in DispatchOutcomes[url] :
         IF dispatch = None
         THEN /\ enriched_link' = Some(PendingLink(url))
              /\ metodo' = 1
              /\ pc' = "chain"
              /\ UNCHANGED <<li, enriched_links>>
         ELSE LET out == ExceptLink(PendingLink(url), Val(dispatch))
              IN  IF out.raised
                  THEN /\ pc' = "raised"
                       /\ UNCHANGED <<li, enriched_links, enriched_link, metodo>>
                  ELSE /\ enriched_links' = AppendLink(enriched_links, out.link)
                       /\ li' = li + 1
                       /\ UNCHANGED <<pc, enriched_link, metodo>>
    /\ UNCHANGED <<claims, content_limit, ci, enriched_claims, total_links,
                   successful_extractions, resultado, extraction_result, calls, result>>
    /\ UNCHANGED direct

\* One line of the debug log of extrair_noticia_principal_de_link: the
\* backend called for a link, and whether the log says "Sucesso" (line 385)
\* or one of the failures (lines 389, 391, 394).
Call(c, l, nome_metodo, ok) ==
    [claim |-> c, link |-> l, metodo |-> nome_metodo, ok |-> ok]

\* Mutant: a backend that fails is called a second time before the next one
\* is tried.
TryMetodoWith_Retry(o) ==
    /\ pc = "chain"
    /\ LET chain       == metodos_rapidos(url)
           nome_metodo == chain[metodo]
           ok          == ~o.raised /\ <<o.resultado, TRUE>> \in Verdicts
       IN  /\ calls' = Append(calls, Call(ci, li, nome_metodo, ok))
           /\ IF ok
              THEN /\ resultado' = ResultadoComMetodo(o.resultado, nome_metodo)
                   /\ extraction_result' =
                          extract_with_newspaper(
                              ResultadoComMetodo(o.resultado, nome_metodo))
                   /\ pc' = "post"
                   /\ UNCHANGED metodo
              ELSE IF calls = <<>> \/ calls[Len(calls)] # Call(ci, li, nome_metodo, FALSE)
              THEN UNCHANGED <<pc, metodo, resultado, extraction_result>>
              ELSE IF metodo < Len(chain)
              THEN /\ metodo' = metodo + 1
                   /\ UNCHANGED <<pc, resultado, extraction_result>>
              ELSE /\ resultado' = None
                   /\ extraction_result' = extract_with_newspaper(None)
                   /\ pc' = "post"
                   /\ UNCHANGED metodo
    /\ UNCHANGED <<claims, content_limit, ci, li, enriched_claims, enriched_links,
                   total_links, successful_extractions, enriched_link, result>>
    /\ UNCHANGED direct

\* extrair_noticia_principal_de_link, lines 375-398: one turn of the loop over
\* metodos_rapidos.  The backend is called; valid content ends the loop with
\* the backend's result, anything else (an exception included) moves on to
\* the next backend, and the end of the list returns None.
TryMetodoWith(o) ==
    /\ pc = "chain"
    /\ LET chain       == metodos_rapidos(url)
           nome_metodo == chain[metodo]
           ok          == ~o.raised /\ <<o.resultado, TRUE>> \in Verdicts
       IN  /\ calls' = Append(calls, Call(ci, li, nome_metodo, ok))
           /\ IF ok
              THEN /\ resultado' = ResultadoComMetodo(o.resultado, nome_metodo)
                   /\ extraction_result' =
                          extract_with_newspaper(
                              ResultadoComMetodo(o.resultado, nome_metodo))
                   /\ pc' = "post"
                   /\ UNCHANGED metodo
              ELSE IF metodo < Len(chain)
              THEN /\ metodo' = metodo + 1
                   /\ UNCHANGED <<pc, resultado, extraction_result>>
              ELSE /\ resultado' = None
                   /\ extraction_result' = extract_with_newspaper(None)
                   /\ pc' = "post"
                   /\ UNCHANGED metodo
    /\ UNCHANGED <<claims, content_limit, ci, li, enriched_claims, enriched_links,
                   total_links, successful_extractions, enriched_link, result>>
    /\ UNCHANGED direct

TryMetodo ==
    /\ pc = "chain"
    /\ \E o \in PageOutcomes[url] : TryMetodoWith(o)

\* Mutant: the notes of a link tell its position among the claim's links.
FinishLink_Numbered ==
    /\ pc = "post"
    /\ enriched_links' =
           AppendLink(enriched_links,
                      [FilledLink(Val(enriched_link), extraction_result, content_limit)
                          EXCEPT !.extraction_notes = Some(Val(@) \o " #" \o ToString(li))])
    /\ li' = li + 1
    /\ enriched_link' = None
    /\ metodo' = 0
    /\ resultado' = None
    /\ extraction_result' = None
    /\ pc' = "links"
    /\ UNCHANGED <<claims, content_limit, ci, enriched_claims, total_links,
                   successful_extractions, calls, result>>
    /\ UNCHANGED direct

\* Mutant: a URL already extracted in this claim is not extracted anew, the
\* link made for it before is used again.
FinishLink_Cached ==
    /\ pc = "post"
    /\ enriched_links' =
           AppendLink(enriched_links,
                      IF \E k \in 1..Len(enriched_links) : enriched_links[k].url = url
                      THEN enriched_links[CHOOSE k \in 1..Len(enriched_links) :
                                              enriched_links[k].url = url]
                      ELSE FilledLink(Val(enriched_link), extraction_result, content_limit))
    /\ li' = li + 1
    /\ enriched_link' = None
    /\ metodo' = 0
    /\ resultado' = None
    /\ extraction_result' = None
    /\ pc' = "links"
    /\ UNCHANGED <<claims, content_limit, ci, enriched_claims, total_links,
                   successful_extractions, calls, result>>
    /\ UNCHANGED direct

\* _extract_link_content, lines 520-545, and _enrich_single_claim, line 485:
\* the link is filled in from the extraction's result and appended.
FinishLink ==
    /\ pc = "post"
    /\ enriched_links' =
           AppendLink(enriched_links,
                      FilledLink(Val(enriched_link), extraction_result, content_limit))
    /\ li' = li + 1
    /\ enriched_link' = None
    /\ metodo' = 0
    /\ resultado' = None
    /\ extraction_result' = None
    /\ pc' = "links"
    /\ UNCHANGED <<claims, content_limit, ci, enriched_claims, total_links,
                   successful_extractions, calls, result>>
    /\ UNCHANGED direct

\* _enrich_single_claim, lines 487-493, and enrich_links, lines 443-448: the
\* claim's links are done; its successes are counted and it is appended.
FinishClaim ==
    /\ pc = "links"
    /\ li > Len(claim.links)
    /\ enriched_claims' = Append(enriched_claims, EnrichedClaim(claim, enriched_links))
    /\ successful_extractions' = successful_extractions + CountSuccess(enriched_links)
    /\ ci' = ci + 1
    /\ li' = 0
    /\ enriched_links' = <<>>
    /\ pc' = "claims"
    /\ UNCHANGED <<claims, content_limit, total_links, enriched_link, metodo,
                   resultado, extraction_result, calls, result>>
    /\ UNCHANGED direct

\* enrich_links, lines 460-475: the batch is done and the result is returned.
ReturnResult ==
    /\ pc = "claims"
    /\ ci > Len(claims)
    /\ result' = Some(LinkEnrichmentResult(claims, enriched_claims, total_links,
                                           successful_extractions))
    /\ pc' = "done"
    /\ UNCHANGED <<claims, content_limit, ci, li, enriched_claims, enriched_links,
                   total_links, successful_extractions, enriched_link, metodo,
                   resultado, extraction_result, calls>>
    /\ UNCHANGED direct

Next ==
    \/ EnrichSingleClaim
    \/ EnrichNoLinks
    \/ ExtractLinkContent
    \/ TryMetodo
    \/ FinishLink
    \/ FinishClaim
    \/ ReturnResult

Spec == Init /\ [][Next]_vars

SpecLimit == InitLimit /\ [][Next]_vars

\* The caller of enrich_links is cancelled, or its timeout expires, while
\* _extract_link_content awaits the executor (line 512): CancelledError is
\* raised at the await.  It is not an Exception, so the handler of line 540
\* lets it pass, and neither _enrich_single_claim nor enrich_links has a
\* handler: the call ends without a return value, its lists are dropped with
\* its frame.
Cancel ==
    /\ pc = "chain"
    /\ pc' = "cancelled"
    /\ UNCHANGED <<claims, content_limit, ci, li, enriched_claims, enriched_links,
                   total_links, successful_extractions, enriched_link, metodo,
                   resultado, extraction_result, calls, result>>
    /\ UNCHANGED direct

NextCancel ==
    \/ Next
    \/ Cancel

\* enrich_links under a caller that may be cancelled.
SpecCancel == Init /\ [][NextCancel]_vars

\* ------------------------------------------------------------------------
\* Calls of _create_simple_summary and _is_invalid_content on their own
\* ------------------------------------------------------------------------
\* A sentence of exactly n characters that ends in a letter.
Sentence(n) == SubSeq(Rep("lorem ipsum ", (n \div 12) + 1), 1, n - 1) \o "m"

\* The titles a summary is asked for.
SummaryTitles == {None, Some(""), Some("X"), Some("Manchete do dia")}

\* First paragraphs: plain, padded with whitespace, blank, and of the
\* lengths around the cut of line 591.
FirstParagraphs ==
    {"Para A.", " \tPara A. \n", "   ", "\n",
     Sentence(SummaryLen - 1), Sentence(SummaryLen), Sentence(SummaryLen + 1),
     "  " \o Sentence(SummaryLen - 2), Sentence(SummaryLen - 1) \o " "}

\* What follows the first paragraph.
ParagraphRests == {"", "\n\nPara B.", "\n\n\nPara B.\n\nPara C."}

SummaryContents == {""} \cup {p \o r : p \in FirstParagraphs, r \in ParagraphRests}

SummaryArgs == {<<t, c>> : t \in SummaryTitles, c \in SummaryContents}

\* The state in which no call of enrich_links is under way.
Idle ==
    /\ claims = <<>>
    /\ content_limit = DefaultContentLimit
    /\ pc = "idle"
    /\ ci = 1
    /\ li = 0
    /\ enriched_claims = <<>>
    /\ enriched_links = <<>>
    /\ total_links = 0
    /\ successful_extractions = 0
    /\ enriched_link = None
    /\ metodo = 0
    /\ resultado = None
    /\ extraction_result = None
    /\ calls = <<>>
    /\ result = None

\* self._create_simple_summary(title, content) is about to be called.
InitSummary ==
    /\ Idle
    /\ fn = "_create_simple_summary"
    /\ args \in SummaryArgs
    /\ ret = None

\* _create_simple_summary, lines 576-596.
CreateSimpleSummary ==
    /\ fn = "_create_simple_summary"
    /\ ret = None
    /\ ret' = Some(create_simple_summary(args[1], args[2]))
    /\ UNCHANGED <<claims, content_limit, pc, ci, li, enriched_claims, enriched_links,
                   total_links, successful_extractions, enriched_link, metodo,
                   resultado, extraction_result, calls, result, fn, args>>

NextSummary == CreateSimpleSummary

\* What a text handed to _is_invalid_content is about: a JavaScript notice
\* with a phrase of invalid_patterns, a phrase of invalid_patterns in capitals,
\* two of js_related_words, one of error_words, three of footer_words, and
\* plain news.
TextCores ==
    {"Please enable JavaScript to continue",
     "TRY AGAIN later",
     "The Browser will Switch tabs",
     "Permission denied by the court",
     "help with terms and cookie settings",
     "O governo anunciou novas medidas"}

\* The lengths on either side of every length test of _is_invalid_content.
TextLens ==
    {ErrorTextLen - 1, ErrorTextLen, FooterTextLen - 1, FooterTextLen,
     ShortTextLen - 1, ShortTextLen, JsTextLen - 1, JsTextLen, LongTextLen}

\* The texts handed to _is_invalid_content: empty, blank, every core alone
\* and padded to every length, one phrase of invalid_patterns repeated, and
\* texts with whitespace around them.
ClassifierTexts ==
    {"", "  \n ", Rep("try again ", 60)}
        \cup TextCores
        \cup {PadWords(c, n) : c \in TextCores, n \in TextLens}
        \cup {PadLong(c, n) : c \in TextCores, n \in TextLens}
        \cup {" " \o PadWords(c, JsTextLen - 1) \o "\n\n" : c \in TextCores}

\* One claim with one of the URLs, and one claim without links.
ProbeBatches ==
    {<<ExtractedClaim(1, <<u>>)>> : u \in AllUrls} \cup {<<ExtractedClaim(1, <<>>)>>}

\* create_link_enricher() on a single extraction.
InitPages ==
    /\ claims \in ProbeBatches
    /\ content_limit = DefaultContentLimit
    /\ Start

\* _is_invalid_content(texto) is about to be called.
InitClassifier ==
    /\ Idle
    /\ fn = "_is_invalid_content"
    /\ args \in {<<t>> : t \in ClassifierTexts}
    /\ ret = None

\* _is_invalid_content, lines 38-123.
IsInvalidContent ==
    /\ fn = "_is_invalid_content"
    /\ ret = None
    /\ ret' = Some(is_invalid_content(args[1]))
    /\ UNCHANGED <<claims, content_limit, pc, ci, li, enriched_claims, enriched_links,
                   total_links, successful_extractions, enriched_link, metodo,
                   resultado, extraction_result, calls, result, fn, args>>

\* The classifier on its own, and inside single extractions.
InitProbe == InitClassifier \/ InitPages

NextProbe ==
    \/ IsInvalidContent
    \/ EnrichSingleClaim
    \/ EnrichNoLinks
    \/ ExtractLinkContent
    \/ TryMetodo
    \/ FinishLink
    \/ FinishClaim
    \/ ReturnResult

SpecProbe == InitProbe /\ [][NextProbe]_vars

SpecSummary == InitSummary /\ [][NextSummary]_vars

\* ------------------------------------------------------------------------
\* Properties
\* ------------------------------------------------------------------------
Returned == result # None

Last(seq) == seq[Len(seq)]

\* The backend calls made for link l of claim c, in the order they were made.
CallsOf(c, l) == SelectSeq(calls, LAMBDA k : k.claim = c /\ k.link = l)

\* The links finished so far, each with its claim and its position.
FinishedLinks ==
    UNION {{[claim |-> c, link |-> l, rec |-> enriched_claims[c].enriched_links[l]] :
               l \in 1..Len(enriched_claims[c].enriched_links)} :
           c \in 1..Len(enriched_claims)}
    \cup {[claim |-> ci, link |-> l, rec |-> enriched_links[l]] :
             l \in 1..Len(enriched_links)}

SumOf(seq) ==
    LET RECURSIVE S(_)
        S(i) == IF i = 0 THEN 0 ELSE seq[i] + S(i - 1)
    IN  S(Len(seq))

\* C1: in the returned result every claim has as many enriched links as the
\* input claim has links, the i-th enriched link carries the i-th input URL
\* (duplicates included), and a URL for which no backend call succeeded still
\* has its link, with status "failed".
C1_LinksPreserved ==
    Returned =>
        LET out == Val(result).enriched_claims
        IN  /\ Len(out) = Len(claims)
            /\ \A c \in 1..Len(claims) :
                 /\ Len(out[c].enriched_links) = Len(claims[c].links)
                 /\ \A l \in 1..Len(claims[c].links) :
                      /\ out[c].enriched_links[l].url = claims[c].links[l]
                      /\ (\A k \in 1..Len(CallsOf(c, l)) : ~CallsOf(c, l)[k].ok)
                            => out[c].enriched_links[l].extraction_status = "failed"

\* C1 witness: a returned claim whose two links are the same URL, the first
\* failed and the second extracted.
C1_Witness ==
    /\ Returned
    /\ \E c \in 1..Len(claims) :
         /\ Len(claims[c].links) = 2
         /\ claims[c].links[1] = claims[c].links[2]
         /\ Val(result).enriched_claims[c].enriched_links[1].extraction_status = "failed"
         /\ Val(result).enriched_claims[c].enriched_links[2].extraction_status = "success"

\* C2: in the returned result total_links_processed is the number of links of
\* the input claims, and the number of EnrichedLink records of the result.
C2_TotalLinks ==
    Returned =>
        /\ Val(result).total_links_processed =
               SumOf([c \in 1..Len(claims) |-> Len(claims[c].links)])
        /\ Val(result).total_links_processed =
               SumOf([c \in 1..Len(Val(result).enriched_claims) |->
                         Len(Val(result).enriched_claims[c].enriched_links)])

\* C2 witness: a returned batch of an empty claim and a claim with the same
\* URL twice, counted as two links.
C2_Witness ==
    /\ Returned
    /\ Len(claims) = 2
    /\ claims[1].links = <<>>
    /\ Len(claims[2].links) = 2
    /\ claims[2].links[1] = claims[2].links[2]
    /\ Val(result).total_links_processed = 2

StatusCount(status) ==
    Cardinality({f \in FinishedLinks : f.rec.extraction_status = status})

\* C3: in the returned result successful_extractions is the number of links
\* with status "success", and the notes report as failures (total minus
\* successful) the number of links with status "failed".
C3_SuccessCount ==
    Returned =>
        /\ Val(result).successful_extractions = StatusCount("success")
        /\ Val(result).processing_notes =
               "Processados " \o ToString(Val(result).total_links_processed)
               \o " links. " \o ToString(StatusCount("success"))
               \o SuccessfulNote \o ToString(StatusCount("failed"))
               \o " falhas."

\* C3 witness: a returned batch with one extracted link and one failed link.
C3_Witness ==
    /\ Returned
    /\ StatusCount("success") = 1
    /\ StatusCount("failed") = 1
    /\ Val(result).successful_extractions = 1

\* Some step of enrich_links is possible (FinishLink has no guard but pc).
CanProceed ==
    \/ ENABLED EnrichSingleClaim
    \/ ENABLED EnrichNoLinks
    \/ ENABLED ExtractLinkContent
    \/ ENABLED TryMetodo
    \/ pc = "post"
    \/ ENABLED FinishClaim
    \/ ENABLED ReturnResult

\* C4: enrich_links never raises: whatever the backends and the dispatch do,
\* the call goes on until it returns, and what it returns has accurate counts.
C4_NeverRaises ==
    /\ pc # "raised"
    /\ pc # "done" => CanProceed
    /\ pc = "done" =>
         /\ Returned
         /\ Val(result).total_links_processed = Cardinality(FinishedLinks)
         /\ Val(result).successful_extractions = StatusCount("success")
         /\ Val(result).total_links_processed - Val(result).successful_extractions
                = StatusCount("failed")

\* C4 witness: the worst case: a returned batch of two links, one whose
\* dispatch raised and one whose backends all failed, both "failed".
C4_Witness ==
    /\ pc = "done"
    /\ Val(result).total_links_processed = 2
    /\ Val(result).successful_extractions = 0
    /\ StatusCount("failed") = 2
    /\ \E f \in FinishedLinks : CallsOf(f.claim, f.link) = <<>>
    /\ \E f \in FinishedLinks : Len(CallsOf(f.claim, f.link)) >= 5

\* C5: a claim without URLs is enriched to a claim whose enriched_links and
\* original_links are empty, and no backend is called for it.
C5_NoLinksNoWork ==
    \A c \in 1..Len(enriched_claims) :
        claims[c].links = <<>> =>
            /\ enriched_claims[c].enriched_links = <<>>
            /\ enriched_claims[c].original_links = <<>>
            /\ \A k \in 1..Len(calls) : calls[k].claim # c

\* C5 witness: a returned batch of a claim without URLs and a claim for which
\* backends were called.
C5_Witness ==
    /\ Returned
    /\ \E c \in 1..Len(claims) : claims[c].links = <<>>
    /\ calls # <<>>

\* What the claims call acceptable text: non-empty, trimmed length above 50,
\* not flagged by the classifier.  Judged once for every outcome of a call.
HasText(o) ==
    /\ ~o.raised
    /\ o.resultado # None
    /\ Truthy(Val(o.resultado).texto_completo)

TextOf(o) == Val(Val(o.resultado).texto_completo)

Judged ==
    {<<o, HasText(o) /\ Len(Strip(TextOf(o))) > 50
             /\ ~is_invalid_content(Strip(TextOf(o)))>> : o \in BackendOutcomes}

Acceptable(o) == <<o, TRUE>> \in Judged

\* The part of the backend's output that the chain returns.
Tagged(o, nome) ==
    Some([titulo         |-> Val(o.resultado).titulo,
          texto_completo |-> Val(o.resultado).texto_completo,
          metodo_usado   |-> nome])

Positions ==
    UNION {{<<c, l>> : l \in 1..Len(claims[c].links)} : c \in 1..Len(claims)}

\* The chain of every URL, worked out once.
Chains == [u \in AllUrls |-> metodos_rapidos(u)]

ChainOf(c, l) == Chains[claims[c].links[l]]

\* C6: for every URL the backends are called in chain order, each position
\* once; at every position of the chain acceptable text is accepted at once,
\* returned as it is and tagged with the name of the backend at that
\* position; and no backend is called after the accepted one.
C6_FirstAcceptable ==
    /\ \A p \in Positions :
         LET cs    == CallsOf(p[1], p[2])
             chain == ChainOf(p[1], p[2])
         IN  /\ Len(cs) <= Len(chain)
             /\ \A k \in 1..Len(cs) :
                  /\ cs[k].metodo = chain[k]
                  /\ cs[k].ok => k = Len(cs)
    /\ pc = "chain" =>
         /\ Len(CallsOf(ci, li)) = metodo - 1
         /\ \A o \in PageOutcomes[claims[ci].links[li]] :
              Acceptable(o) =>
                  ENABLED (/\ TryMetodoWith(o)
                           /\ pc' = "post"
                           /\ extraction_result' = Tagged(o, ChainOf(ci, li)[metodo])
                           /\ Last(calls').ok)
    /\ (pc = "post" /\ extraction_result # None) =>
         /\ Last(CallsOf(ci, li)).ok
         /\ Val(extraction_result).metodo_usado = Last(CallsOf(ci, li)).metodo
         /\ \E o \in BackendOutcomes :
              /\ Acceptable(o)
              /\ extraction_result = Tagged(o, Last(CallsOf(ci, li)).metodo)

\* C6 witness: the chain of a URL ended at its third backend, whose text was
\* accepted, after two backends whose output was not.
C6_Witness ==
    /\ pc = "post"
    /\ extraction_result # None
    /\ Len(CallsOf(ci, li)) = 3
    /\ Val(extraction_result).metodo_usado = "readability"

StartsWith(s, prefix) == SubSeq(s, 1, Len(prefix)) = prefix

\* C7: a backend that raises, returns nothing, or returns insufficient or
\* rejected text does not end the chain, the next backend is tried; and a
\* link whose last backend call was accepted has status "success" and notes
\* that name that backend.
C7_FallbackContinues ==
    /\ (pc = "chain" /\ metodo < Len(ChainOf(ci, li))) =>
         \A o \in PageOutcomes[claims[ci].links[li]] :
             ~Acceptable(o) =>
                 ENABLED (/\ TryMetodoWith(o)
                          /\ pc' = "chain"
                          /\ metodo' = metodo + 1
                          /\ ~Last(calls').ok)
    /\ \A f \in FinishedLinks :
         LET cs == CallsOf(f.claim, f.link)
         IN  (cs # <<>> /\ Last(cs).ok) =>
                 /\ f.rec.extraction_status = "success"
                 /\ f.rec.extraction_notes # None
                 /\ StartsWith(Val(f.rec.extraction_notes),
                               ExtractedWithNote \o Last(cs).metodo \o ".")

\* C7 witness: a finished link whose first two backends failed and whose
\* third backend, readability, was accepted.
C7_Witness ==
    \E f \in FinishedLinks :
        /\ Len(CallsOf(f.claim, f.link)) = 3
        /\ Last(CallsOf(f.claim, f.link)).ok
        /\ f.rec.extraction_status = "success"
        /\ StartsWith(Val(f.rec.extraction_notes), ExtractedWithNote \o "readability.")

\* Every backend of the link's chain was called and none was accepted.
Exhausted(f) ==
    LET cs == CallsOf(f.claim, f.link)
    IN  /\ Len(cs) = Len(ChainOf(f.claim, f.link))
        /\ \A k \in 1..Len(cs) : ~cs[k].ok

\* C8: a link whose backends all failed or were rejected has status
\* "failed", empty content and empty title.
C8_ExhaustedFailed ==
    \A f \in FinishedLinks :
        Exhausted(f) =>
            /\ f.rec.extraction_status = "failed"
            /\ f.rec.content = ""
            /\ f.rec.title = Some("")

\* C8 witness: a finished link of the social URL, all six backends called.
C8_Witness ==
    \E f \in FinishedLinks :
        /\ Exhausted(f)
        /\ Len(CallsOf(f.claim, f.link)) = 6
        /\ f.rec.extraction_status = "failed"

\* C9: every finished link with empty content has the placeholder
\* "Conteúdo não disponível" as its summary.
C9_EmptyContentPlaceholder ==
    \A f \in FinishedLinks :
        f.rec.content = "" => f.rec.summary = NoContentSummary

\* C10: no finished link has content longer than content_limit; and the
\* content of a link filled in from accepted text full_text is full_text when
\* that is at most content_limit long, and its first content_limit characters
\* otherwise.
C10_Truncation ==
    /\ [](\A f \in FinishedLinks : Len(f.rec.content) <= content_limit)
    /\ [][(pc = "post" /\ extraction_result # None) =>
            LET full_text == Val(Val(extraction_result).texto_completo)
                content   == Last(enriched_links').content
            IN  /\ Len(enriched_links') = Len(enriched_links) + 1
                /\ IF Len(full_text) <= content_limit
                   THEN content = full_text
                   ELSE content = SubSeq(full_text, 1, content_limit)]_vars

\* C10 witness: a link extracted under the small budget, its content cut to
\* exactly that many characters.
C10_Witness ==
    /\ content_limit = SmallContentLimit
    /\ \E f \in FinishedLinks :
         /\ f.rec.extraction_status = "success"
         /\ Len(f.rec.content) = SmallContentLimit

\* _create_simple_summary has returned.
SummaryReturned == fn = "_create_simple_summary" /\ ret # None

\* P is the first paragraph of content: the text before the first double
\* newline, or the whole content when it has none.
IsFirstParagraph(P, content) ==
    \/ /\ P = content
       /\ ~Contains("\n\n", content)
    \/ /\ Len(P) + 2 <= Len(content)
       /\ SubSeq(content, Len(P) + 1, Len(P) + 2) = "\n\n"
       /\ ~Contains("\n\n", SubSeq(content, 1, Len(P) + 1))

\* C11: for a non-empty content whose first paragraph P is non-blank and at
\* most 200 characters long, the summary is "Título: T | Resumo: P" with P
\* trimmed when the title T is non-empty, and "Resumo: P" alone when the
\* title is empty.
C11_SummaryFormat ==
    SummaryReturned =>
        LET T       == args[1]
            content == args[2]
        IN  \A n \in 1..Len(content) :
                LET P == SubSeq(content, 1, n)
                IN  (/\ IsFirstParagraph(P, content)
                     /\ Strip(P) # ""
                     /\ Len(P) <= 200) =>
                        IF T # None /\ Val(T) # ""
                        THEN Val(ret) = TitleLabel \o Val(T) \o " | Resumo: " \o Strip(P)
                        ELSE Val(ret) = "Resumo: " \o Strip(P)

\* C11 witness: title "X" and content "Para A.\n\nPara B." gave
\* "Título: X | Resumo: Para A.".
C11_Witness ==
    /\ SummaryReturned
    /\ args = <<Some("X"), "Para A.\n\nPara B.">>
    /\ ret = Some(TitleLabel \o "X | Resumo: Para A.")

\* _is_invalid_content has returned.
ClassifierReturned == fn = "_is_invalid_content" /\ ret # None

\* The text contains a phrase of the failure lexicon, in any capitals.
HasLexiconPhrase(t) == \E phrase \in invalid_patterns : Contains(phrase, Lower(t))

\* What a backend returned is a text.
OutcomeText(o) ==
    IF ~o.raised /\ o.resultado # None /\ Val(o.resultado).texto_completo # None
    THEN Val(Val(o.resultado).texto_completo)
    ELSE ""

\* The chain, given outcome o by its current backend, moves on to the next
\* backend; after the last backend it ends without a result.
Discards(o) ==
    IF metodo < Len(ChainOf(ci, li))
    THEN ENABLED (/\ TryMetodoWith(o)
                  /\ pc' = "chain"
                  /\ metodo' = metodo + 1
                  /\ ~Last(calls').ok)
    ELSE ENABLED (/\ TryMetodoWith(o)
                  /\ pc' = "post"
                  /\ extraction_result' = None
                  /\ ~Last(calls').ok)

\* C12: _is_invalid_content rejects every text whose trimmed length is below
\* 300 and that contains a phrase of the failure lexicon in any capitals,
\* "Please enable JavaScript to continue" among them; and the chain discards
\* a backend's output that is such a text and goes on.
C12_ShortKeywordRule ==
    /\ ClassifierReturned =>
         /\ (Len(Strip(args[1])) < 300 /\ HasLexiconPhrase(args[1])) => Val(ret) = TRUE
         /\ args[1] = "Please enable JavaScript to continue" => Val(ret) = TRUE
    /\ pc = "chain" =>
         \A o \in PageOutcomes[claims[ci].links[li]] :
             (/\ OutcomeText(o) # ""
              /\ Len(Strip(OutcomeText(o))) < 300
              /\ HasLexiconPhrase(OutcomeText(o))) => Discards(o)

\* C12 witness: the call on "Please enable JavaScript to continue" returned
\* True.
C12_Witness ==
    /\ ClassifierReturned
    /\ args = <<"Please enable JavaScript to continue">>
    /\ ret = Some(TRUE)

\* The number of places of t at which phrase occurs.
Occurrences(phrase, t) ==
    Cardinality({i \in 1..(Len(t) - Len(phrase) + 1) :
                    SubSeq(t, i, i + Len(phrase) - 1) = phrase})

RECURSIVE SumOver(_, _)
\* The sum of weight[x] over the x of S.
SumOver(S, weight) ==
    IF S = {} THEN 0
    ELSE LET x == CHOOSE y \in S : TRUE
         IN  weight[x] + SumOver(S \ {x}, weight)

\* The words of t that belong to occurrences of lexicon phrases.
LexiconWords(t) ==
    SumOver(invalid_patterns,
            [phrase \in invalid_patterns |->
                Occurrences(phrase, Lower(t)) * WordCount(phrase)])

\* C13: _is_invalid_content rejects every text in which the words that belong
\* to occurrences of lexicon phrases are more than 15% of the text's words,
\* whatever the text's length.
C13_DensityRule ==
    (/\ ClassifierReturned
     /\ LexiconWords(args[1]) * 100 > 15 * WordCount(args[1])) => Val(ret) = TRUE

\* The chain, given outcome o by its current backend, returns it at once,
\* tagged with that backend's name.
Accepts(o) ==
    ENABLED (/\ TryMetodoWith(o)
             /\ pc' = "post"
             /\ extraction_result' = Tagged(o, ChainOf(ci, li)[metodo])
             /\ Last(calls').ok)

\* C14, as amended: _is_invalid_content returns False for every text whose
\* trimmed length is at least 400 and that contains no phrase of the failure
\* lexicon; and the chain accepts a backend's output that is such a text, so
\* that no later backend is tried.
C14_LongCleanAccepted ==
    /\ (/\ ClassifierReturned
        /\ Len(Strip(args[1])) >= 400
        /\ ~HasLexiconPhrase(args[1])) => Val(ret) = FALSE
    /\ pc = "chain" =>
         \A o \in PageOutcomes[claims[ci].links[li]] :
             (/\ Len(Strip(OutcomeText(o))) >= 400
              /\ ~HasLexiconPhrase(OutcomeText(o))) => Accepts(o)

\* C14 witness: the call on the article of 600 characters returned False.
C14_Witness ==
    /\ ClassifierReturned
    /\ args = <<TextLong>>
    /\ Len(TextLong) = 600
    /\ ret = Some(FALSE)

\* C14 as stated: the same of every text of at least 400 characters, the
\* whitespace around it counted.
C14_Original ==
    /\ (/\ ClassifierReturned
        /\ Len(args[1]) >= 400
        /\ ~HasLexiconPhrase(args[1])) => Val(ret) = FALSE
    /\ pc = "chain" =>
         \A o \in PageOutcomes[claims[ci].links[li]] :
             (/\ Len(OutcomeText(o)) >= 400
              /\ ~HasLexiconPhrase(OutcomeText(o))) => Accepts(o)

\* The text of s after the first occurrence of sep.
AfterFirst(sep, s) ==
    LET at == {i \in 1..(Len(s) - Len(sep) + 1) : SubSeq(s, i, i + Len(sep) - 1) = sep}
        first == CHOOSE i \in at : \A j \in at : i <= j
    IN  SubSeq(s, first + Len(sep), Len(s))

\* The host of a URL: what stands between "://" and the next "/".
HostOf(u) ==
    LET rest == IF Contains("://", u) THEN AfterFirst("://", u) ELSE u
    IN  IF Contains("/", rest) THEN BeforeFirst("/", rest) ELSE rest

EndsWith(s, suffix) ==
    Len(suffix) <= Len(s) /\ SubSeq(s, Len(s) - Len(suffix) + 1, Len(s)) = suffix

\* The host is x.com or twitter.com, or a subdomain of one of them.
IsSocialHost(h) ==
    \E d \in {"x.com", "twitter.com"} : h = d \/ EndsWith(h, "." \o d)

\* C15: goose3 is in the chain of a URL, right after trafilatura, if and only
\* if the URL's host is x.com or twitter.com; a URL with any other host never
\* has goose3 in its chain, wherever else the domain name occurs in the URL.
C15_GooseSocialHostOnly ==
    pc = "chain" =>
        LET chain  == ChainOf(ci, li)
            social == IsSocialHost(HostOf(claims[ci].links[li]))
        IN  /\ social <=> (\E k \in 1..Len(chain) : chain[k] = "goose3")
            /\ social => (chain[1] = "trafilatura" /\ chain[2] = "goose3")

\* What the backends did for a link: the backends called, in order, and
\* whether each one's output was accepted.
OutcomesOf(f) ==
    LET cs == CallsOf(f.claim, f.link)
    IN  [k \in 1..Len(cs) |-> <<cs[k].metodo, cs[k].ok>>]

\* C16: two extractions of the same URL in which the backends were called
\* and did the same yield the same status, content, title and summary and
\* the same notes, wherever the URL stands in the batch and whatever was
\* extracted before.
C16_Deterministic ==
    \A f, g \in FinishedLinks :
        (/\ f.rec.url = g.rec.url
         /\ OutcomesOf(f) # <<>>
         /\ OutcomesOf(f) = OutcomesOf(g)) =>
            /\ f.rec.extraction_status = g.rec.extraction_status
            /\ f.rec.content = g.rec.content
            /\ f.rec.title = g.rec.title
            /\ f.rec.summary = g.rec.summary
            /\ f.rec.extraction_notes = g.rec.extraction_notes

\* C16 witness: the same URL extracted twice in one batch, the second
\* backend accepted both times.
C16_Witness ==
    \E f, g \in FinishedLinks :
        /\ <<f.claim, f.link>> # <<g.claim, g.link>>
        /\ f.rec.url = g.rec.url
        /\ OutcomesOf(f) = OutcomesOf(g)
        /\ Len(OutcomesOf(f)) = 2
        /\ f.rec.extraction_status = "success"

\* The chain the claim gives to a URL.
ChainAsStated(u) ==
    IF IsSocialHost(HostOf(u))
    THEN <<"trafilatura", "goose3", "newspaper3k", "readability",
           "requests_session", "beautifulsoup">>
    ELSE <<"trafilatura", "newspaper3k", "readability",
           "requests_session", "beautifulsoup">>

\* The backends called for a link, in the order of the calls.
NamesCalled(f) ==
    LET cs == CallsOf(f.claim, f.link)
    IN  [k \in 1..Len(cs) |-> cs[k].metodo]

BackendTexts == {OutcomeText(o) : o \in BackendOutcomes} \ {""}

\* The backend texts of trimmed length 50 or less.
TooShortTexts == {t \in BackendTexts : Len(Strip(t)) <= 50}

\* The backend texts whose trimmed length is at least 51 and that the
\* classifier does not flag.
SufficientTexts ==
    {t \in BackendTexts : Len(Strip(t)) >= 51 /\ ~is_invalid_content(t)}

\* C18: a backend output whose trimmed length is 50 or less is discarded by
\* the chain, whatever it contains and whatever the classifier says of it;
\* and the content of every link of status "success" is that of a backend
\* text of trimmed length at least 51 that the classifier does not flag.
C18_MinimumLength ==
    /\ pc = "chain" =>
         \A o \in PageOutcomes[claims[ci].links[li]] :
             OutcomeText(o) \in TooShortTexts => Discards(o)
    /\ (pc = "post" /\ extraction_result # None) =>
         Val(Val(extraction_result).texto_completo) \in SufficientTexts
    /\ \A f \in FinishedLinks :
         f.rec.extraction_status = "success" =>
             \E t \in SufficientTexts :
                 f.rec.content = LimitContent(Some(t), content_limit)

\* C18 witness: a link is finished with status "success" while the chain of
\* another, past its first backend, may be given a text of trimmed length 50
\* that the classifier does not flag.
C18_Witness ==
    /\ pc = "chain"
    /\ metodo >= 2
    /\ \E f \in FinishedLinks : f.rec.extraction_status = "success"
    /\ \E o \in PageOutcomes[claims[ci].links[li]] :
          /\ OutcomeText(o) \in TooShortTexts
          /\ Len(Strip(OutcomeText(o))) = 50
          /\ ~is_invalid_content(OutcomeText(o))

\* The five rules of the classifier on a text t whose length counts as len:
\* the distinct lexicon phrases present are more than 15% of the words; a
\* lexicon phrase and len < 300; two error/JS terms and len < 400; a minimal
\* error word and len < 100; three footer terms and len < 200.
DensityFires(t) ==
    /\ WordCount(t) > 0
    /\ CountIn(invalid_patterns, Lower(t)) * 100 > 15 * WordCount(t)

ShortFires(t, len) == len < 300 /\ HasLexiconPhrase(t)

JsFires(t, len) == CountIn(js_related_words, Lower(t)) >= 2 /\ len < 400

ErrorFires(t, len) == len < 100 /\ CountIn(error_words, Lower(t)) >= 1

FooterFires(t, len) == CountIn(footer_words, Lower(t)) >= 3 /\ len < 200

RulesFiring(t, len) ==
    (IF DensityFires(t) THEN {"density"} ELSE {})
        \cup (IF ShortFires(t, len) THEN {"short"} ELSE {})
        \cup (IF JsFires(t, len) THEN {"js"} ELSE {})
        \cup (IF ErrorFires(t, len) THEN {"error"} ELSE {})
        \cup (IF FooterFires(t, len) THEN {"footer"} ELSE {})

C20_NotesTellLastFailure ==
    \A f \in FinishedLinks :
        Exhausted(f) =>
            /\ f.rec.extraction_status = "failed"
            /\ f.rec.extraction_notes # None
            /\ Val(f.rec.extraction_notes) # ""
            /\ Contains(Last(CallsOf(f.claim, f.link)).metodo,
                        Val(f.rec.extraction_notes))

\* The first paragraph of a content: the text before its first double
\* newline, or all of it when it has none.
FirstParagraphOf(content) ==
    IF content = "" THEN ""
    ELSE LET ends == {n \in 0..Len(content) :
                         IsFirstParagraph(SubSeq(content, 1, n), content)}
         IN  SubSeq(content, 1, CHOOSE n \in ends : TRUE)

\* A text cut to its first 200 characters, with "..." after them exactly
\* when characters were cut off.
CutTo200(P) == IF Len(P) > 200 THEN SubSeq(P, 1, 200) \o "..." ELSE P

\* The summary has a 'Resumo' part, and it is the text R.
ResumoIs(summary, R) ==
    /\ Contains("Resumo: ", summary)
    /\ AfterFirst("Resumo: ", summary) = R

\* C21, as amended: the 'Resumo' part of the summary is the first paragraph
\* of the content, trimmed: the text before the first double newline, or the
\* whole content when there is none; and in both cases a first paragraph of
\* more than 200 characters is cut to its first 200 characters, followed by
\* "..." exactly when characters were cut off.
C21_ResumoPart ==
    (SummaryReturned /\ args[2] # "") =>
        LET R == Strip(CutTo200(FirstParagraphOf(args[2])))
        IN  IF R # "" THEN ResumoIs(Val(ret), R)
            ELSE ~Contains("Resumo: ", Val(ret))

\* C21 witness: a content whose first paragraph, before a double newline,
\* has 201 characters gave a 'Resumo' of 200 characters and "...".
C21_Witness ==
    /\ SummaryReturned
    /\ Contains("\n\n", args[2])
    /\ Len(FirstParagraphOf(args[2])) = 201
    /\ ResumoIs(Val(ret), SubSeq(args[2], 1, 200) \o "...")

\* C21 as stated: the first paragraph of a content with a double newline is
\* not cut; only a content without one is cut to 200 characters.
C21_Original ==
    (SummaryReturned /\ args[2] # "") =>
        LET R == Strip(IF Contains("\n\n", args[2])
                       THEN FirstParagraphOf(args[2])
                       ELSE CutTo200(args[2]))
        IN  R # "" => ResumoIs(Val(ret), R)

\* The messages of the exceptions the dispatch raises.
DispatchMessages == {Val(d) : d \in UNION {DispatchOutcomes[u] : u \in AllUrls} \ {None}}

\* The notes of a link whose extraction raised with message m.
ErrorNotes(m) ==
    ErrorNotePrefix \o (IF Len(m) > 100 THEN SubSeq(m, 1, 100) ELSE m)

\* The link's extraction raised before any backend was called.
DispatchRaised(f) == CallsOf(f.claim, f.link) = <<>>

\* C22: a link whose extraction raised inside _extract_link_content is
\* returned with status "failed" and notes "Erro durante extração: " followed
\* by at most the first 100 characters of the exception's message; and the
\* batch goes on: the call returns with one link for every URL of every
\* claim.
C22_ExceptionContained ==
    /\ pc # "raised"
    /\ \A f \in FinishedLinks :
         DispatchRaised(f) =>
             /\ f.rec.extraction_status = "failed"
             /\ f.rec.url = claims[f.claim].links[f.link]
             /\ \E m \in DispatchMessages :
                    f.rec.extraction_notes = Some(ErrorNotes(m))
             /\ Len(Val(f.rec.extraction_notes)) <= Len(ErrorNotePrefix) + 100
    /\ (\E f \in FinishedLinks : DispatchRaised(f)) =>
         (pc # "done" => CanProceed)
    /\ Returned =>
         /\ Len(Val(result).enriched_claims) = Len(claims)
         /\ \A c \in 1..Len(claims) :
              Len(Val(result).enriched_claims[c].enriched_links) = Len(claims[c].links)

\* C22 witness: a returned batch whose first link raised with a message of
\* more than 100 characters, of which the notes keep 100, and whose second
\* link, extracted after it, has status "success".
C22_Witness ==
    /\ Returned
    /\ \E f, g \in FinishedLinks :
          /\ DispatchRaised(f)
          /\ f.rec.extraction_notes = Some(ErrorNotePrefix \o SubSeq(LongMessage, 1, 100))
          /\ Len(LongMessage) > 100
          /\ <<f.claim, f.link>> \in {<<1, 1>>}
          /\ <<g.claim, g.link>> \in {<<1, 2>>, <<2, 1>>}
          /\ g.rec.extraction_status = "success"

\* The position in the batch of the k-th backend call.
CallPosition(k) == <<calls[k].claim, calls[k].link>>

\* Position p comes before position q in the batch, or is q.
NotAfter(p, q) == p[1] < q[1] \/ (p[1] = q[1] /\ p[2] <= q[2])

\* A link's extraction is under way: its pending link exists and is not yet
\* appended.
InFlight == enriched_link # None

\* C23: URLs are processed one at a time: the one extraction under way is
\* that of the URL at the current position, every position before it is
\* finalized and no position after it has been started; backend calls are
\* made in the order of the positions; and the claims are processed in
\* input order.
C23_OneAtATime ==
    /\ InFlight <=> pc \in {"chain", "post"}
    /\ InFlight =>
         /\ Val(enriched_link).url = claims[ci].links[li]
         /\ Len(enriched_claims) = ci - 1
         /\ Len(enriched_links) = li - 1
         /\ \A f \in FinishedLinks : f.rec.extraction_status # "pending"
         /\ calls # <<>> => NotAfter(CallPosition(Len(calls)), <<ci, li>>)
    /\ \A k \in 1..(Len(calls) - 1) : NotAfter(CallPosition(k), CallPosition(k + 1))
    /\ \A f \in FinishedLinks : f.rec.url = claims[f.claim].links[f.link]
    /\ \A c \in 1..Len(enriched_claims) :
         /\ enriched_claims[c].text = claims[c].text
         /\ enriched_claims[c].original_links = claims[c].links

\* C23 witness: the chain of the second URL of the batch is under way after
\* backends were called for the first, whose link is finalized.
C23_Witness ==
    /\ pc = "chain"
    /\ metodo >= 2
    /\ <<ci, li>> \in {<<1, 2>>, <<2, 1>>}
    /\ CallsOf(1, 1) # <<>>
    /\ CallsOf(ci, li) # <<>>
    /\ \E f \in FinishedLinks :
          <<f.claim, f.link>> = <<1, 1>> /\ f.rec.extraction_status # "pending"

\* C24: when the caller is cancelled while a URL's extraction is under way,
\* the links of the URLs already finished are still returned to it.
C24_PartialResult ==
    (pc = "cancelled" /\ FinishedLinks # {}) =>
        /\ result # None
        /\ \A f \in FinishedLinks :
             /\ f.claim <= Len(Val(result).enriched_claims)
             /\ f.link <= Len(Val(result).enriched_claims[f.claim].enriched_links)
             /\ Val(result).enriched_claims[f.claim].enriched_links[f.link] = f.rec

\* The URL is one for which the code puts goose3 in the chain.
MentionsSocial(u) == Contains("x.com", u) \/ Contains("twitter.com", u)

\* How far the call of enrich_links has come: claims done, then links done
\* within the claim, then backends tried within the link.
Progress ==
    LET perLink  == 8
        perClaim == 2 + perLink * (MaxTotalLinks + 1)
        inClaim  == IF pc \in {"claims", "done"} THEN 0
                    ELSE 1 + perLink * (li - 1)
                           + (IF pc = "chain" THEN metodo
                              ELSE IF pc = "post" THEN 7 ELSE 0)
    IN  perClaim * ci + inClaim + (IF pc = "done" THEN 1 ELSE 0)

CarriesOver(e, c) ==
    /\ e.text = c.text
    /\ e.llm_comment = c.llm_comment
    /\ e.entities = c.entities
    /\ e.original_links = c.links

\* C26: enrich_links returns one EnrichedClaim for every input claim, in
\* input order, with the input claim's text, llm_comment and entities and
\* with its links as original_links; the input claims are never changed and
\* are returned as original_claims.
C26_ClaimsCarriedOver ==
    /\ [](/\ Len(enriched_claims) <= Len(claims)
          /\ \A c \in 1..Len(enriched_claims) : CarriesOver(enriched_claims[c], claims[c])
          /\ Returned =>
               /\ Len(Val(result).enriched_claims) = Len(claims)
               /\ \A c \in 1..Len(claims) :
                    CarriesOver(Val(result).enriched_claims[c], claims[c])
               /\ Val(result).original_claims = claims)
    /\ [][claims' = claims]_vars

\* C26 witness: a returned batch of two claims, the first with links and the
\* second without, each carried over.
C26_Witness ==
    /\ Returned
    /\ Len(claims) = 2
    /\ claims[1].links # <<>>
    /\ claims[2].links = <<>>
    /\ Val(result).enriched_claims[1].text = "claim 1"
    /\ Val(result).enriched_claims[2].entities = <<"entity 2">>

BackendNames == UNION {{Chains[u][k] : k \in 1..Len(Chains[u])} : u \in Urls}

\* The links that a URL and the outputs of its own backend calls can give
\* when backend m is the one accepted, worked out once for every URL.
OwnSuccessLinks ==
    [u \in Urls |->
        [m \in BackendNames |->
            {FilledLink(PendingLink(u), Tagged(o, m), DefaultContentLimit) :
                o \in {x \in PageOutcomes[u] : Acceptable(x)}}]]

\* The link of a URL whose own backends all failed.
OwnFailedLink == [u \in Urls |-> FilledLink(PendingLink(u), None, DefaultContentLimit)]

\* The links of a URL whose own extraction raised.
OwnErrorLinks ==
    [u \in Urls |-> {ExceptLink(PendingLink(u), m).link : m \in DispatchMessages}]

\* C27: the link made for a URL depends on that URL and on what its own
\* backend calls returned, and on nothing else in the batch: it is the link
\* of its own accepted output, of its own exhausted chain or of its own
\* exception, whatever happened to the other URLs; and a URL that occurs
\* twice is extracted twice, each occurrence with backend calls of its own.
C27_NoCrossUrlState ==
    /\ \A f \in FinishedLinks :
         LET u  == claims[f.claim].links[f.link]
             cs == CallsOf(f.claim, f.link)
         IN  IF cs = <<>> THEN f.rec \in OwnErrorLinks[u]
             ELSE IF Last(cs).ok THEN f.rec \in OwnSuccessLinks[u][Last(cs).metodo]
             ELSE f.rec = OwnFailedLink[u]
    /\ pc = "post" =>
         /\ CallsOf(ci, li) # <<>>
         /\ Last(calls) = Last(CallsOf(ci, li))

\* C27 witness: one URL twice in a batch; all backends failed for its first
\* occurrence and the second, with calls of its own, has status "success".
C27_Witness ==
    \E f, g \in FinishedLinks :
        /\ <<f.claim, f.link>> = <<1, 1>>
        /\ <<g.claim, g.link>> # <<1, 1>>
        /\ f.rec.url = g.rec.url
        /\ f.rec.extraction_status = "failed"
        /\ Exhausted(f)
        /\ g.rec.extraction_status = "success"
        /\ CallsOf(g.claim, g.link) # <<>>

\* C28: a link is created "pending" and is "pending" while its extraction
\* is under way; it is appended to its claim as "success" or "failed", and
\* from then on none of its fields changes, its status included; no link of
\* a returned result is "pending".
C28_StatusLifecycle ==
    /\ [](/\ InFlight => Val(enriched_link).extraction_status = "pending"
          /\ \A f \in FinishedLinks :
               f.rec.extraction_status \in {"success", "failed"}
          /\ Returned =>
               \A c \in 1..Len(Val(result).enriched_claims) :
                   \A l \in 1..Len(Val(result).enriched_claims[c].enriched_links) :
                       Val(result).enriched_claims[c].enriched_links[l].extraction_status
                           \in {"success", "failed"})
    /\ [][\A f \in FinishedLinks : f \in FinishedLinks']_vars
    /\ [][(InFlight /\ ~InFlight') =>
              \E f \in FinishedLinks' :
                  /\ f \notin FinishedLinks
                  /\ <<f.claim, f.link>> = <<ci, li>>
                  /\ f.rec.url = Val(enriched_link).url]_vars

\* C28 witness: a returned batch of two claims with one link each, one
\* "success" and one "failed", both once pending while backends were called.
C28_Witness ==
    /\ Returned
    /\ Len(claims) = 2
    /\ CallsOf(1, 1) # <<>>
    /\ CallsOf(2, 1) # <<>>
    /\ Val(result).enriched_claims[1].enriched_links[1].extraction_status = "success"
    /\ Val(result).enriched_claims[2].enriched_links[1].extraction_status = "failed"

\* C29: the title of every finished link is a string, never a null value;
\* the link of an accepted output that has no title has the title "".
C29_TitleIsString ==
    \A f \in FinishedLinks :
        /\ f.rec.title # None
        /\ (f.rec.extraction_status = "success"
              /\ \A o \in PageOutcomes[f.rec.url] :
                     Acceptable(o) => Val(o.resultado).titulo = None)
               => f.rec.title = Some("")

\* C30: the verdict of _is_invalid_content depends only on the trimmed,
\* lower-cased text: every text gets the verdict of its trimmed, lower-cased
\* form, so that two texts with the same such form get the same verdict; and
\* a text of whitespace alone gets the verdict of the empty text, True.
C30_NormalisedVerdict ==
    ClassifierReturned =>
        /\ Val(ret) = is_invalid_content(Strip(Lower(args[1])))
        /\ Strip(args[1]) = "" => Val(ret) = TRUE

====
